---- MODULE Spec2Model ----
(***************************************************************************)
(* Model of magicray/SQLiteDB, src/sqlitedb.py: a local sqlite3 file per   *)
(* node, replicated through numbered log objects in one S3 bucket.         *)
(*                                                                         *)
(* Every node runs at most one process at a time.  A process owns one      *)
(* CoreDB object (self.conn, self.lsn, self.txns).  All nodes use the same *)
(* database name, so the key 'SQLiteDB/{db}/logs/{n}' is modelled by n.    *)
(***************************************************************************)
EXTENDS Integers, Sequences, FiniteSets, TLC

VARIABLES
    s3,         \* the bucket: a function from the existing keys n to octets
    conn,       \* conn[n]: the sqlite3 file and connection of node n
    lsn,        \* self.lsn of the CoreDB object of node n
    txns,       \* self.txns of the CoreDB object of node n
    pc,         \* position of the process of node n
    c_lsn,      \* the local variable lsn of a running commit()
    last,       \* history: the call that ended last on node n and its result,
                \* kept until the node acts again
    recover,    \* history: key whose put succeeded right before a kill
    calls,      \* the number of calls of modify(), and of operations that
                \* raised before it, so far on all nodes
    frame       \* the call of a function checked on its own: its arguments
                \* and its result; no process of Spec makes such a call

vars == <<s3, conn, lsn, txns, pc, c_lsn, last, recover, calls, frame>>

(***************************************************************************)
(* Bounds                                                                  *)
(***************************************************************************)
MaxLsn == 2         \* commit() is not called once logs/MaxLsn would be passed
MaxModify == 2      \* modify() is called at most that often in a run
MaxReplay == 4      \* the same, in the runs of SpecReplay

Nodes == {"A", "B"}

(***************************************************************************)
(* Python values.  None is a value of its own kind.                        *)
(***************************************************************************)
None == [none |-> TRUE, v |-> 0]
Some(x) == [none |-> FALSE, v |-> x]

\* a float is written by the integer it equals, a str by its characters,
\* bytes by the sequence of their values 0..255
IntV(i) == [kind |-> "int", v |-> i]
FloatV(x) == [kind |-> "float", v |-> x]
StrV(chars) == [kind |-> "str", v |-> chars]
BytesV(octs) == [kind |-> "bytes", v |-> octs]
NoneV == [kind |-> "none", v |-> 0]

\* k[0], the first character of a parameter name
Prefix(k) ==
    CASE k = "ikey" -> "i"
      [] k = "inum" -> "i"
      [] k = "fval" -> "f"
      [] k = "tname" -> "t"
      [] k = "tkey" -> "t"
      [] k = "bpayload" -> "b"

NoParams == [k \in {} |-> NoneV]

(***************************************************************************)
(* The statements Database renders (lines 166-215) and passes to modify.   *)
(***************************************************************************)
CreateTable == [sql |-> "create table t (ikey int not null, primary key(ikey))",
                params |-> NoParams]
DropTable == [sql |-> "drop table t", params |-> NoParams]
Insert(v) == [sql |-> "insert into t(ikey) values(:ikey)",
              params |-> [k \in {"ikey"} |-> v]]
Delete(v) == [sql |-> "delete from t where ikey=:ikey",
              params |-> [k \in {"ikey"} |-> v]]
\* the names a caller gives to the column of t
Columns == {"ikey", "inum", "tkey"}

RenameSql(src_col, dst_col) ==
    "alter table t rename column " \o src_col \o " to " \o dst_col

Rename(src_col, dst_col) ==
    [sql |-> RenameSql(src_col, dst_col), params |-> NoParams]

\* the renaming statements, and the two names each of them holds
RenameSqls == {RenameSql(a, b) : <<a, b>> \in Columns \X Columns}
RenameNames == [q \in RenameSqls |->
                   CHOOSE p \in Columns \X Columns : q = RenameSql(p[1], p[2])]

IsRename(s) == s.sql \in RenameSqls
RenameSrc(s) == RenameNames[s.sql][1]
RenameDst(s) == RenameNames[s.sql][2]

\* a bug: the row is set one too far
UpdateKv_Skip(k) == [sql |-> "update _kv set value=? where key='lsn'",
                     params |-> [p \in {"1"} |-> IntV(k + 1)]]

UpdateKv(k) == [sql |-> "update _kv set value=? where key='lsn'",
                params |-> [p \in {"1"} |-> IntV(k)]]

Stmts == {CreateTable, DropTable, Insert(IntV(1)), Delete(NoneV)}

(***************************************************************************)
(* The sqlite3 engine.  A database is the user table t (present or not,    *)
(* with the name of its one column and the set of its primary keys) and    *)
(* the row 'lsn' of _kv.  The row is read as 0 until a commit stores it:   *)
(* every process runs 'insert or ignore' (lines 58-59) before it reads the *)
(* row.                                                                    *)
(*                                                                         *)
(* sqlite3.connect (line 52) is called without isolation_level, so the     *)
(* connection opens a transaction by itself before INSERT, UPDATE, DELETE  *)
(* and REPLACE only.  Any other statement run while no transaction is open *)
(* is committed by the engine as soon as it has run.                       *)
(***************************************************************************)
\* a bug: numbering starts one too low
EmptyDb_Minus == [t |-> FALSE, col |-> "ikey", rows |-> {}, kv_lsn |-> -1]

EmptyDb == [t |-> FALSE, col |-> "ikey", rows |-> {}, kv_lsn |-> 0]

UserData(d) == [t |-> d.t, col |-> d.col, rows |-> d.rows]

\* the statements before which the connection opens a transaction
IsDML(s) == s.sql \in {"insert into t(ikey) values(:ikey)",
                        "delete from t where ikey=:ikey",
                        "update _kv set value=? where key='lsn'"}

\* compiling the statement fails when the table is missing / already there
PrepareOk(s, d) ==
    CASE s.sql = CreateTable.sql -> ~d.t
      [] s.sql = UpdateKv(0).sql -> TRUE
      [] s.sql = DropTable.sql -> d.t
      [] IsRename(s) ->
            d.t /\ d.col = RenameSrc(s) /\ d.col # RenameDst(s)
      [] OTHER -> d.t /\ d.col = "ikey"

\* running a compiled statement: [ok, d]
SqlStep(s, d) ==
    CASE s.sql = CreateTable.sql ->
            [ok |-> TRUE, d |-> [d EXCEPT !.t = TRUE, !.col = "ikey"]]
      [] s.sql = DropTable.sql ->
            [ok |-> TRUE,
             d |-> [d EXCEPT !.t = FALSE, !.col = "ikey", !.rows = {}]]
      [] IsRename(s) ->
            [ok |-> TRUE, d |-> [d EXCEPT !.col = RenameDst(s)]]
      [] s.sql = Insert(NoneV).sql ->
            LET v == s.params["ikey"] IN
            IF v.kind = "none" \/ v.v \in d.rows
            THEN [ok |-> FALSE, d |-> d]
            ELSE [ok |-> TRUE, d |-> [d EXCEPT !.rows = @ \cup {v.v}]]
      [] s.sql = Delete(NoneV).sql ->
            LET v == s.params["ikey"] IN
            IF v.kind = "none"
            THEN [ok |-> TRUE, d |-> d]
            ELSE [ok |-> TRUE, d |-> [d EXCEPT !.rows = @ \ {v.v}]]
      [] s.sql = UpdateKv(0).sql ->
            [ok |-> TRUE, d |-> [d EXCEPT !.kv_lsn = s.params["1"].v]]

(***************************************************************************)
(* A connection: disk is the committed content of the file, work is what   *)
(* the connection sees, inTx tells whether a transaction is open.          *)
(***************************************************************************)
NewConn == [disk |-> EmptyDb, work |-> EmptyDb, inTx |-> FALSE]

\* cursor.execute / conn.execute: [ok, c].  A statement that does not
\* compile raises before a transaction is opened; one that fails while it
\* runs leaves the transaction open and changes nothing.
ConnExecute(c, s) ==
    IF ~PrepareOk(s, c.work)
    THEN [ok |-> FALSE, c |-> c]
    ELSE LET r == SqlStep(s, c.work) IN
         IF c.inTx \/ IsDML(s)
         THEN [ok |-> r.ok, c |-> [c EXCEPT !.work = r.d, !.inTx = TRUE]]
         ELSE [ok |-> r.ok, c |-> [c EXCEPT !.work = r.d, !.disk = r.d]]

ConnCommit(c) == [disk |-> c.work, work |-> c.work, inTx |-> FALSE]

ConnRollback(c) == [disk |-> c.disk, work |-> c.disk, inTx |-> FALSE]

\* the loop 'for sql, params in txns: cur.execute(sql, params)' over the
\* first j statements; stops at the first statement that raises
RECURSIVE ExecuteAll(_, _, _)
ExecuteAll(c, stmts, j) ==
    IF j = 0 \/ stmts = <<>>
    THEN [ok |-> TRUE, c |-> c]
    ELSE LET r == ConnExecute(c, Head(stmts)) IN
         IF r.ok THEN ExecuteAll(r.c, Tail(stmts), j - 1)
                 ELSE [ok |-> FALSE, c |-> r.c]

(***************************************************************************)
(* Segment encoding                                                        *)
(***************************************************************************)
TYPES == [i |-> "int", f |-> "float", t |-> "str", b |-> "bytes"]

\* assert (type(v) is TYPES[k[0]]) for every parameter of every statement
TypesOk(stmts) ==
    \A i \in 1..Len(stmts) : \A k \in DOMAIN stmts[i].params :
        stmts[i].params[k].kind = TYPES[Prefix(k)]

\* base64: a text of the 64 digits, written by their values 0..63, and of
\* '=', written 64
Pad == 64

RECURSIVE B64Encode(_)
B64Encode(octs) ==
    IF Len(octs) = 0 THEN <<>>
    ELSE IF Len(octs) = 1
    THEN <<octs[1] \div 4, (octs[1] % 4) * 16, Pad, Pad>>
    ELSE IF Len(octs) = 2
    THEN <<octs[1] \div 4, (octs[1] % 4) * 16 + octs[2] \div 16,
           (octs[2] % 16) * 4, Pad>>
    ELSE <<octs[1] \div 4, (octs[1] % 4) * 16 + octs[2] \div 16,
           (octs[2] % 16) * 4 + octs[3] \div 64, octs[3] % 64>>
         \o B64Encode(SubSeq(octs, 4, Len(octs)))

\* b64decode(s) with validate=False is binascii.a2b_base64(s), not strict:
\* a character outside the alphabet (written by a value above Pad) is
\* skipped, '=' counts only once two digits of a group are read, the text
\* ends at the '=' that completes a group, and the call raises when the
\* text ends inside a group.  [ok, bin]
RECURSIVE A2bBase64(_, _, _, _)
A2bBase64(text, quad_pos, leftchar, pads) ==
    IF text = <<>>
    THEN [ok |-> quad_pos = 0, bin |-> <<>>]
    ELSE LET this_ch == Head(text) IN
         IF this_ch = Pad
         THEN IF quad_pos >= 2 /\ quad_pos + pads + 1 >= 4
              THEN [ok |-> TRUE, bin |-> <<>>]
              ELSE A2bBase64(Tail(text), quad_pos, leftchar,
                             IF quad_pos >= 2 THEN pads + 1 ELSE pads)
         ELSE IF this_ch > Pad
         THEN A2bBase64(Tail(text), quad_pos, leftchar, pads)
         ELSE LET out == CASE quad_pos = 0 -> <<>>
                           [] quad_pos = 1 ->
                                 <<leftchar * 4 + this_ch \div 16>>
                           [] quad_pos = 2 ->
                                 <<leftchar * 16 + this_ch \div 4>>
                           [] quad_pos = 3 -> <<leftchar * 64 + this_ch>>
                  left == CASE quad_pos = 0 -> this_ch
                            [] quad_pos = 1 -> this_ch % 16
                            [] quad_pos = 2 -> this_ch % 4
                            [] quad_pos = 3 -> 0
                  r == A2bBase64(Tail(text), (quad_pos + 1) % 4, left, 0)
              IN [ok |-> r.ok, bin |-> out \o r.bin]

\* b64decode returns
B64Valid(text) == A2bBase64(text, 0, 0, 0).ok

B64Decode(text) == A2bBase64(text, 0, 0, 0).bin

\* lines 78-79: a parameter named b... is replaced by its base64 text
EncodeParam(k, v) ==
    IF Prefix(k) = "b" THEN StrV(B64Encode(v.v)) ELSE v

\* json.dumps of one value: the JSON text keeps int and float apart
JsonDump(v) ==
    CASE v.kind = "int" -> [json |-> "integer", text |-> v.v]
      [] v.kind = "float" -> [json |-> "real", text |-> v.v]
      [] v.kind = "str" -> [json |-> "string", text |-> v.v]
      [] v.kind = "none" -> [json |-> "null", text |-> 0]

\* json.loads of one value
JsonLoad(j) ==
    CASE j.json = "integer" -> IntV(j.text)
      [] j.json = "real" -> FloatV(j.text)
      [] j.json = "string" -> StrV(j.text)
      [] j.json = "null" -> NoneV

\* lines 73-81
Encode(stmts) ==
    [i \in 1..Len(stmts) |->
        <<stmts[i].sql,
          [k \in DOMAIN stmts[i].params |->
              JsonDump(EncodeParam(k, stmts[i].params[k]))]>>]

\* lines 113-114: v.encode() needs a str, b64decode a well-formed text
DecodeParamOk(k, v) ==
    Prefix(k) = "b" => (v.kind = "str" /\ B64Valid(v.v))

DecodeParam(k, v) ==
    IF Prefix(k) = "b" THEN BytesV(B64Decode(v.v)) ELSE v

\* lines 108-116 run to their end: no decoding raises and every assert holds
DecodeOk(octets) ==
    \A i \in 1..Len(octets) : \A k \in DOMAIN octets[i][2] :
        LET v == JsonLoad(octets[i][2][k]) IN
        /\ DecodeParamOk(k, v)
        /\ DecodeParam(k, v).kind = TYPES[Prefix(k)]

Decode(octets) ==
    [i \in 1..Len(octets) |->
        [sql |-> octets[i][1],
         params |-> [k \in DOMAIN octets[i][2] |->
                        DecodeParam(k, JsonLoad(octets[i][2][k]))]]]

(***************************************************************************)
(* S3Bucket                                                                *)
(***************************************************************************)
\* get: None for NoSuchKey
S3Exists(key) == key \in DOMAIN s3

\* a bug: put_object without IfNoneMatch replaces the object
S3Put_Overwrite(bucket, key, value) ==
    [ok |-> TRUE,
     bucket |-> [k \in DOMAIN bucket \cup {key} |->
                    IF k = key THEN value ELSE bucket[k]]]

\* put_object(..., IfNoneMatch='*'): raises (ok = FALSE) when the key exists
S3Put(bucket, key, value) ==
    IF key \in DOMAIN bucket
    THEN [ok |-> FALSE, bucket |-> bucket]
    ELSE [ok |-> TRUE, bucket |-> bucket @@ (key :> value)]

(***************************************************************************)
(* History values                                                          *)
(***************************************************************************)
\* op: "none", "init_returned", "init_raised", "sync_returned", "sync_raised",
\* "put_ok" (commit after its put), "returned" (commit), "raced" (commit whose
\* put found the key), "error" (commit that raised before its put)
Ended(op, key, octets) == [op |-> op, key |-> key, octets |-> octets]
NoCall == Ended("none", 0, <<>>)

\* a function called on its own: at is "called", then "encoded", "decoded",
\* "returned" or "raised"
Frame(fn, at, arg, ret) == [fn |-> fn, at |-> at, arg |-> arg, ret |-> ret]
NoFrame == Frame("none", "none", <<>>, <<>>)

(***************************************************************************)
(* Initial state: empty bucket, fresh files, no process running.           *)
(***************************************************************************)
NoProcess ==
    /\ s3 = [k \in {} |-> <<>>]
    /\ conn = [n \in Nodes |-> NewConn]
    /\ lsn = [n \in Nodes |-> None]
    /\ txns = [n \in Nodes |-> None]
    /\ pc = [n \in Nodes |-> "down"]
    /\ c_lsn = [n \in Nodes |-> 0]
    /\ last = [n \in Nodes |-> NoCall]
    /\ recover = [n \in Nodes |-> 0]
    /\ calls = 0

Init ==
    /\ NoProcess
    /\ frame = NoFrame

(***************************************************************************)
(* CoreDB.__init__ up to the first two lines of sync(): the table _kv is   *)
(* created, 'insert or ignore' opens a transaction, self.lsn is read.      *)
(***************************************************************************)
Open(n) ==
    /\ pc[n] = "down"
    /\ UNCHANGED frame
    /\ LET c == [conn[n] EXCEPT !.inTx = TRUE] IN
        /\ conn' = [conn EXCEPT ![n] = c]
        /\ lsn' = [lsn EXCEPT ![n] = Some(c.work.kv_lsn)]
    /\ txns' = [txns EXCEPT ![n] = Some(<<>>)]
    /\ pc' = [pc EXCEPT ![n] = "init_sync"]
    /\ last' = [last EXCEPT ![n] = NoCall]
    /\ recover' = [recover EXCEPT ![n] =
                      IF last[n].op = "init_raised" THEN 0 ELSE @]
    /\ UNCHANGED <<s3, c_lsn, calls>>

\* the process is killed, or exits without commit, with connection state c:
\* memory is lost, the open transaction is discarded
Dead(n, c) ==
    /\ conn' = [conn EXCEPT ![n] = ConnRollback(c)]
    /\ lsn' = [lsn EXCEPT ![n] = None]
    /\ txns' = [txns EXCEPT ![n] = None]
    /\ pc' = [pc EXCEPT ![n] = "down"]
    /\ c_lsn' = [c_lsn EXCEPT ![n] = 0]

Crash(n) ==
    /\ pc[n] # "down"
    /\ UNCHANGED frame
    /\ Dead(n, conn[n])
    /\ last' = [last EXCEPT ![n] = NoCall]
    /\ recover' = [recover EXCEPT ![n] =
                      IF pc[n] = "put_done" THEN c_lsn[n] + 1
                      ELSE IF last[n].op = "init_returned" THEN 0 ELSE @]
    /\ UNCHANGED <<s3, calls>>

\* a call on the session of node n starts: the observation of the previous
\* call is closed
Called(n, l) ==
    /\ last' = [l EXCEPT ![n] = NoCall]
    /\ recover' = [recover EXCEPT ![n] =
                      IF last[n].op = "init_returned" THEN 0 ELSE @]

\* a put succeeded: no node's sync result tells the end of the log any more
Published(l) ==
    [m \in Nodes |-> IF l[m].op \in {"init_returned", "sync_returned"}
                     THEN NoCall ELSE l[m]]

(***************************************************************************)
(* CoreDB.sync                                                             *)
(***************************************************************************)
\* a bug: sync() starts by discarding the open transaction
SyncCall_Rollback(n) ==
    /\ pc[n] = "idle"
    /\ UNCHANGED frame
    /\ conn' = [conn EXCEPT ![n] = ConnRollback(@)]
    /\ lsn' = [lsn EXCEPT ![n] = Some(conn[n].disk.kv_lsn)]
    /\ pc' = [pc EXCEPT ![n] = "sync"]
    /\ Called(n, last)
    /\ UNCHANGED <<s3, txns, c_lsn, calls>>

\* lines 99-100 of a call of sync() on an open session
SyncCall(n) ==
    /\ pc[n] = "idle"
    /\ UNCHANGED frame
    /\ lsn' = [lsn EXCEPT ![n] = Some(conn[n].work.kv_lsn)]
    /\ pc' = [pc EXCEPT ![n] = "sync"]
    /\ Called(n, last)
    /\ UNCHANGED <<s3, conn, txns, c_lsn, calls>>

\* the constructor, or the call of sync(), ends
SyncEnd(n, how) ==
    /\ last' = [last EXCEPT ![n] =
                   Ended(IF pc[n] = "init_sync" THEN "init_" \o how
                                                ELSE "sync_" \o how, 0, <<>>)]
    /\ UNCHANGED recover

\* a bug: the loop is left after the first segment applied
SyncStep_Once(n) ==
    /\ pc[n] \in {"init_sync", "sync"}
    /\ UNCHANGED frame
    /\ UNCHANGED calls
    /\ LET key == lsn[n].v + 1 IN
       IF ~S3Exists(key)
       THEN /\ pc' = [pc EXCEPT ![n] = "idle"]
            /\ SyncEnd(n, "returned")
            /\ UNCHANGED <<s3, conn, lsn, txns, c_lsn>>
       ELSE LET ok == DecodeOk(s3[key])
                stmts == Decode(s3[key])
                r == ExecuteAll(conn[n], stmts, Len(stmts))
            IN
            IF ok /\ r.ok
            THEN /\ conn' = [conn EXCEPT ![n] =
                        ConnCommit(ConnExecute(r.c, UpdateKv(key)).c)]
                 /\ lsn' = [lsn EXCEPT ![n] = Some(key)]
                 /\ pc' = [pc EXCEPT ![n] = "idle"]
                 /\ SyncEnd(n, "returned")
                 /\ UNCHANGED <<s3, txns, c_lsn>>
            ELSE LET c == IF ok THEN r.c ELSE conn[n] IN
                 IF pc[n] = "init_sync"
                 THEN /\ Dead(n, c)
                      /\ SyncEnd(n, "raised")
                      /\ UNCHANGED s3
                 ELSE /\ conn' = [conn EXCEPT ![n] = c]
                      /\ pc' = [pc EXCEPT ![n] = "idle"]
                      /\ SyncEnd(n, "raised")
                      /\ UNCHANGED <<s3, lsn, txns, c_lsn>>

\* one round of the loop, lines 103-127
SyncStep(n) ==
    /\ pc[n] \in {"init_sync", "sync"}
    /\ UNCHANGED frame
    /\ UNCHANGED calls
    /\ LET key == lsn[n].v + 1 IN
       IF ~S3Exists(key)
       THEN \* octets is None: break
            /\ pc' = [pc EXCEPT ![n] = "idle"]
            /\ SyncEnd(n, "returned")
            /\ UNCHANGED <<s3, conn, lsn, txns, c_lsn>>
       ELSE LET ok == DecodeOk(s3[key])
                stmts == Decode(s3[key])
                r == ExecuteAll(conn[n], stmts, Len(stmts))
            IN
            IF ok /\ r.ok
            THEN /\ conn' = [conn EXCEPT ![n] =
                        ConnCommit(ConnExecute(r.c, UpdateKv(key)).c)]
                 /\ lsn' = [lsn EXCEPT ![n] = Some(key)]
                 /\ UNCHANGED <<s3, txns, pc, c_lsn, last, recover>>
            ELSE \* an assert or a statement raised
                 LET c == IF ok THEN r.c ELSE conn[n] IN
                 IF pc[n] = "init_sync"
                 THEN \* no object is constructed, the connection is dropped
                      /\ Dead(n, c)
                      /\ SyncEnd(n, "raised")
                      /\ UNCHANGED s3
                 ELSE \* the caller gets the exception, the session lives on
                      /\ conn' = [conn EXCEPT ![n] = c]
                      /\ pc' = [pc EXCEPT ![n] = "idle"]
                      /\ SyncEnd(n, "raised")
                      /\ UNCHANGED <<s3, lsn, txns, c_lsn>>

\* the process is killed inside a round after j statements of the segment;
\* what a statement outside a transaction wrote stays in the file
SyncKilled(n, j) ==
    /\ pc[n] \in {"init_sync", "sync"}
    /\ UNCHANGED frame
    /\ S3Exists(lsn[n].v + 1)
    /\ LET stmts == Decode(s3[lsn[n].v + 1])
           r == ExecuteAll(conn[n], stmts, j)
       IN /\ j \in 1..Len(stmts)
          /\ DecodeOk(s3[lsn[n].v + 1])
          /\ r.c.disk # conn[n].disk
          /\ Dead(n, r.c)
    /\ UNCHANGED <<s3, last, recover, calls>>

(***************************************************************************)
(* CoreDB.modify                                                           *)
(***************************************************************************)
\* lines 89-96, in a run with at most `most` calls of modify()
ModifyCall(n, s, most) ==
    /\ pc[n] = "idle"
    /\ UNCHANGED frame
    /\ calls < most
    /\ calls' = calls + 1
    /\ LET r == ConnExecute(conn[n], s) IN
        /\ conn' = [conn EXCEPT ![n] = r.c]
        /\ txns' = [txns EXCEPT ![n] =
                       IF r.ok /\ ~txns[n].none
                       THEN Some(Append(txns[n].v, s))
                       ELSE @]
    /\ Called(n, last)
    /\ UNCHANGED <<s3, lsn, pc, c_lsn>>

Modify(n, s) == ModifyCall(n, s, MaxModify)

(***************************************************************************)
(* CoreDB.commit                                                           *)
(***************************************************************************)
\* a bug: the local half (lines 84-85) runs before the put
Commit_LocalFirst(n) ==
    /\ pc[n] = "idle"
    /\ UNCHANGED frame
    /\ ~lsn[n].none
    /\ ~txns[n].none
    /\ lsn[n].v < MaxLsn
    /\ conn' = [conn EXCEPT ![n] =
                   ConnCommit(ConnExecute(@, UpdateKv(lsn[n].v + 1)).c)]
    /\ pc' = [pc EXCEPT ![n] = "put_done"]
    /\ c_lsn' = [c_lsn EXCEPT ![n] = lsn[n].v]
    /\ lsn' = [lsn EXCEPT ![n] = None]
    /\ txns' = [txns EXCEPT ![n] = None]
    /\ last' = [last EXCEPT ![n] = NoCall]
    /\ UNCHANGED <<s3, recover, calls>>

\* a bug: self.lsn and self.txns are cleared only once the put succeeded
Commit_KeepsState(n) ==
    /\ pc[n] = "idle"
    /\ UNCHANGED frame
    /\ ~lsn[n].none => lsn[n].v < MaxLsn
    /\ UNCHANGED calls
    /\ recover' = [recover EXCEPT ![n] =
                      IF last[n].op = "init_returned" THEN 0 ELSE @]
    /\ IF txns[n].none \/ lsn[n].none \/ ~TypesOk(txns[n].v)
       THEN /\ last' = [last EXCEPT ![n] = Ended("error", 0, <<>>)]
            /\ UNCHANGED <<s3, conn, pc, c_lsn, lsn, txns>>
       ELSE LET key == lsn[n].v + 1
                octets == Encode(txns[n].v)
                put == S3Put(s3, key, octets)
            IN
            IF put.ok
            THEN /\ s3' = put.bucket
                 /\ pc' = [pc EXCEPT ![n] = "put_done"]
                 /\ c_lsn' = [c_lsn EXCEPT ![n] = lsn[n].v]
                 /\ lsn' = [lsn EXCEPT ![n] = None]
                 /\ txns' = [txns EXCEPT ![n] = None]
                 /\ last' = [Published(last) EXCEPT ![n] =
                                Ended("put_ok", key, octets)]
                 /\ UNCHANGED conn
            ELSE /\ s3' = put.bucket
                 /\ last' = [last EXCEPT ![n] = Ended("raced", key, octets)]
                 /\ UNCHANGED <<conn, pc, c_lsn, lsn, txns>>

\* lines 70-83: take self.lsn and self.txns, check, encode, put
Commit(n) ==
    /\ pc[n] = "idle"
    /\ UNCHANGED frame
    /\ ~lsn[n].none => lsn[n].v < MaxLsn
    /\ UNCHANGED calls
    /\ lsn' = [lsn EXCEPT ![n] = None]
    /\ txns' = [txns EXCEPT ![n] = None]
    /\ recover' = [recover EXCEPT ![n] =
                      IF last[n].op = "init_returned" THEN 0 ELSE @]
    /\ IF txns[n].none \/ lsn[n].none \/ ~TypesOk(txns[n].v)
       THEN \* TypeError or AssertionError before the put
            /\ last' = [last EXCEPT ![n] = Ended("error", 0, <<>>)]
            /\ UNCHANGED <<s3, conn, pc, c_lsn>>
       ELSE LET key == lsn[n].v + 1
                octets == Encode(txns[n].v)
                put == S3Put(s3, key, octets)
            IN
            IF put.ok
            THEN /\ s3' = put.bucket
                 /\ pc' = [pc EXCEPT ![n] = "put_done"]
                 /\ c_lsn' = [c_lsn EXCEPT ![n] = lsn[n].v]
                 /\ last' = [Published(last) EXCEPT ![n] =
                                Ended("put_ok", key, octets)]
                 /\ UNCHANGED conn
            ELSE /\ s3' = put.bucket
                 /\ last' = [last EXCEPT ![n] = Ended("raced", key, octets)]
                 /\ UNCHANGED <<conn, pc, c_lsn>>

\* a bug: line 87 leaves self.lsn at the old value
CommitLocal_StaleLsn(n) ==
    /\ pc[n] = "put_done"
    /\ UNCHANGED frame
    /\ conn' = [conn EXCEPT ![n] =
                   ConnCommit(ConnExecute(@, UpdateKv(c_lsn[n] + 1)).c)]
    /\ lsn' = [lsn EXCEPT ![n] = Some(c_lsn[n])]
    /\ txns' = [txns EXCEPT ![n] = Some(<<>>)]
    /\ pc' = [pc EXCEPT ![n] = "idle"]
    /\ c_lsn' = [c_lsn EXCEPT ![n] = 0]
    /\ last' = [last EXCEPT ![n].op = "returned"]
    /\ UNCHANGED <<s3, recover, calls>>

\* a bug: line 87 leaves the statements just published in self.txns
CommitLocal_KeepTxns(n) ==
    /\ pc[n] = "put_done"
    /\ UNCHANGED frame
    /\ conn' = [conn EXCEPT ![n] =
                   ConnCommit(ConnExecute(@, UpdateKv(c_lsn[n] + 1)).c)]
    /\ lsn' = [lsn EXCEPT ![n] = Some(c_lsn[n] + 1)]
    /\ txns' = [txns EXCEPT ![n] = Some(Decode(last[n].octets))]
    /\ pc' = [pc EXCEPT ![n] = "idle"]
    /\ c_lsn' = [c_lsn EXCEPT ![n] = 0]
    /\ last' = [last EXCEPT ![n].op = "returned"]
    /\ UNCHANGED <<s3, recover, calls>>

\* lines 84-87: update _kv, conn.commit(), self.lsn and self.txns
CommitLocal(n) ==
    /\ pc[n] = "put_done"
    /\ UNCHANGED frame
    /\ conn' = [conn EXCEPT ![n] =
                   ConnCommit(ConnExecute(@, UpdateKv(c_lsn[n] + 1)).c)]
    /\ lsn' = [lsn EXCEPT ![n] = Some(c_lsn[n] + 1)]
    /\ txns' = [txns EXCEPT ![n] = Some(<<>>)]
    /\ pc' = [pc EXCEPT ![n] = "idle"]
    /\ c_lsn' = [c_lsn EXCEPT ![n] = 0]
    /\ last' = [last EXCEPT ![n].op = "returned"]
    /\ UNCHANGED <<s3, recover, calls>>

Next ==
    \/ \E n \in Nodes : Open(n)
    \/ \E n \in Nodes : SyncCall(n)
    \/ \E n \in Nodes : SyncStep(n)
    \/ \E n \in Nodes : \E j \in 1..MaxModify : SyncKilled(n, j)
    \/ \E n \in Nodes : \E s \in Stmts : Modify(n, s)
    \/ \E n \in Nodes : Commit(n)
    \/ \E n \in Nodes : CommitLocal(n)
    \/ \E n \in Nodes : Crash(n)

Spec == Init /\ [][Next]_vars

\* the scheduling of a call of sync(): a round that can run does run
SpecFair == Spec /\ \A n \in Nodes : WF_vars(SyncStep(n))

(***************************************************************************)
(* Database: the operations a caller uses, and main's operation 'sync'.    *)
(***************************************************************************)
PYTYPES == [i |-> {"int"}, f |-> {"int", "float"}, t |-> {"str"},
            b |-> {"str", "bytes"}]

\* lines 155-162 for one pair: [ok, v]; line 157 raises Exception, line 160
\* raises binascii.Error
ValidateOne(k, v) ==
    IF v.kind # "none" /\ v.kind \notin PYTYPES[Prefix(k)]
    THEN [ok |-> FALSE, v |-> v]
    ELSE IF Prefix(k) = "b" /\ v.kind = "str"
    THEN [ok |-> B64Valid(v.v), v |-> BytesV(B64Decode(v.v))]
    ELSE [ok |-> TRUE, v |-> v]

\* lines 150-164: [ok, params]
ValidateTypes(values) ==
    [ok |-> \A k \in DOMAIN values : ValidateOne(k, values[k]).ok,
     params |-> [k \in DOMAIN values |-> ValidateOne(k, values[k]).v]]

\* a call of a Database operation raised before it reached modify(); such
\* a call counts as one of the calls of the run
Raised(n, op) ==
    /\ pc[n] = "idle"
    /\ calls < MaxModify
    /\ calls' = calls + 1
    /\ last' = [last EXCEPT ![n] = Ended(op, 0, <<>>)]
    /\ recover' = [recover EXCEPT ![n] =
                      IF last[n].op = "init_returned" THEN 0 ELSE @]
    /\ UNCHANGED <<s3, conn, lsn, txns, pc, c_lsn, frame>>

\* lines 166-171
DatabaseCreateTable(n) == ModifyCall(n, CreateTable, MaxModify)

\* lines 190-195, for a row of t
DatabaseInsert(n, row) ==
    LET v == ValidateTypes(row) IN
    IF v.ok THEN ModifyCall(n, Insert(v.params["ikey"]), MaxModify)
            ELSE Raised(n, "type_mismatch")

\* a bug: the test of line 181 comes after the call of modify
RenameColumn_CheckLast(n, src_col, dst_col) ==
    IF Prefix(src_col) # Prefix(dst_col)
    THEN /\ pc[n] = "idle"
         /\ calls < MaxModify
         /\ calls' = calls + 1
         /\ LET r == ConnExecute(conn[n], Rename(src_col, dst_col)) IN
             /\ conn' = [conn EXCEPT ![n] = r.c]
             /\ txns' = [txns EXCEPT ![n] =
                            IF r.ok /\ ~txns[n].none
                            THEN Some(Append(txns[n].v,
                                             Rename(src_col, dst_col)))
                            ELSE @]
         /\ last' = [last EXCEPT ![n] = Ended("ddl_mismatch", 0, <<>>)]
         /\ UNCHANGED <<s3, lsn, pc, c_lsn, recover, frame>>
    ELSE ModifyCall(n, Rename(src_col, dst_col), MaxModify)

\* lines 180-185
RenameColumn(n, src_col, dst_col) ==
    IF Prefix(src_col) # Prefix(dst_col)
    THEN Raised(n, "ddl_mismatch")
    ELSE ModifyCall(n, Rename(src_col, dst_col), MaxModify)

\* the attributes of a Database object (lines 141-215)
DatabaseAttrs == {"db", "SQLTYPES", "commit", "validate_types",
                  "create_table", "drop_table", "add_column",
                  "rename_column", "drop_column", "insert", "update",
                  "delete"}

\* main with the operation 'sync' (lines 272-280), after the constructor
\* (line 244): the loop body starts with lsn = db.sync() on the Database
\* object, which raises AttributeError; the process ends
FollowerLoop(n) ==
    /\ pc[n] = "idle"
    /\ "sync" \notin DatabaseAttrs
    /\ Dead(n, conn[n])
    /\ last' = [last EXCEPT ![n] = Ended("main_raised", 0, <<>>)]
    /\ recover' = [recover EXCEPT ![n] =
                      IF last[n].op = "init_returned" THEN 0 ELSE @]
    /\ UNCHANGED <<s3, calls, frame>>

\* the rows and the column names the callers of SpecApi pass
ApiRows == {[k \in {"ikey"} |-> IntV(1)], [k \in {"ikey"} |-> FloatV(1)]}
ApiRenames == {<<"ikey", "inum">>, <<"ikey", "tkey">>}

ApiNext ==
    \/ \E n \in Nodes : Open(n)
    \/ \E n \in Nodes : SyncCall(n)
    \/ \E n \in Nodes : SyncStep(n)
    \/ \E n \in Nodes : \E j \in 1..MaxModify : SyncKilled(n, j)
    \/ \E n \in Nodes : DatabaseCreateTable(n)
    \/ \E n \in Nodes : \E row \in ApiRows : DatabaseInsert(n, row)
    \/ \E n \in Nodes : \E r \in ApiRenames : RenameColumn(n, r[1], r[2])
    \/ \E n \in Nodes : Commit(n)
    \/ \E n \in Nodes : CommitLocal(n)
    \/ \E n \in Nodes : Crash(n)
    \/ \E n \in Nodes : FollowerLoop(n)

SpecApi == Init /\ [][ApiNext]_vars

(***************************************************************************)
(* The same program with callers that insert two keys and never drop or    *)
(* delete: a segment of two inserts can fail at its second statement.      *)
(***************************************************************************)
ReplayStmts == {CreateTable, Insert(IntV(1)), Insert(IntV(2))}

ReplayNext ==
    \/ \E n \in Nodes : Open(n)
    \/ \E n \in Nodes : SyncCall(n)
    \/ \E n \in Nodes : SyncStep(n)
    \/ \E n \in Nodes : \E j \in 1..MaxReplay : SyncKilled(n, j)
    \/ \E n \in Nodes : \E s \in ReplayStmts : ModifyCall(n, s, MaxReplay)
    \/ \E n \in Nodes : Commit(n)
    \/ \E n \in Nodes : CommitLocal(n)
    \/ \E n \in Nodes : Crash(n)

SpecReplay == Init /\ [][ReplayNext]_vars

(***************************************************************************)
(* validate_types called on its own.  A value is drawn by its type and its *)
(* content: a text is made of the base64 digits 'A' and 'Q', of '=' and of *)
(* one character outside the base64 alphabet; bytes are made of 0 and 255. *)
(***************************************************************************)
MaxText == 4        \* the longest text passed to validate_types
MaxOctets == 3      \* the longest bytes value passed

Junk == 65

Names == {"ikey", "fval", "tname", "bpayload"}

RECURSIVE SeqsUpTo(_, _)
SeqsUpTo(S, len) ==
    IF len = 0 THEN {<<>>}
    ELSE LET shorter == SeqsUpTo(S, len - 1) IN
         shorter \cup {Append(q, c) : q \in shorter, c \in S}

Texts == SeqsUpTo({0, 16, Pad, Junk}, MaxText)
Octets == SeqsUpTo({0, 255}, MaxOctets)

Choices == ({"int", "float", "none"} \X {<<>>})
               \cup ({"str"} \X Texts) \cup ({"bytes"} \X Octets)

Value(c) ==
    CASE c[1] = "int" -> IntV(1)
      [] c[1] = "float" -> FloatV(1)
      [] c[1] = "none" -> NoneV
      [] c[1] = "str" -> StrV(c[2])
      [] c[1] = "bytes" -> BytesV(c[2])

\* the second pair of a map of two names
Others == {<<"ikey", <<"int", <<>> >> >>, <<"ikey", <<"none", <<>> >> >>,
           <<"tname", <<"float", <<>> >> >>, <<"bpayload", <<"bytes", <<255>> >> >>}

ValidateInit ==
    /\ NoProcess
    /\ \E k \in Names, c \in Choices :
          \/ frame = Frame("validate_types", "called", k :> Value(c), <<>>)
          \/ \E o \in Others :
                /\ o[1] # k
                /\ frame = Frame("validate_types", "called",
                                 (k :> Value(c)) @@ (o[1] :> Value(o[2])), <<>>)

\* lines 150-164: the call returns params or raises
ValidateCall ==
    /\ frame.fn = "validate_types"
    /\ frame.at = "called"
    /\ LET r == ValidateTypes(frame.arg) IN
       frame' = [frame EXCEPT !.at = IF r.ok THEN "returned" ELSE "raised",
                              !.ret = IF r.ok THEN r.params ELSE <<>>]
    /\ UNCHANGED <<s3, conn, lsn, txns, pc, c_lsn, last, recover, calls>>

SpecValidate == ValidateInit /\ [][ValidateCall]_vars

(***************************************************************************)
(* The codec on its own: a pending list of one or two inserts whose        *)
(* parameters validate_types returned is encoded as commit encodes it, and *)
(* the octets are decoded as sync decodes them.                            *)
(***************************************************************************)
CodecChoices == {c \in Choices : c[1] = "str" => Len(c[2]) <= 1}

InsertSql(k) == "insert into t(" \o k \o ") values(:" \o k \o ")"

\* lines 190-195 for a row of one column
InsertRow(k, v) ==
    [sql |-> InsertSql(k), params |-> ValidateTypes(k :> v).params]

CodecInit ==
    /\ NoProcess
    /\ \E k1 \in Names, c1 \in CodecChoices :
          /\ ValidateTypes(k1 :> Value(c1)).ok
          /\ \/ frame = Frame("codec", "called", <<InsertRow(k1, Value(c1))>>, <<>>)
             \/ \E k2 \in Names, c2 \in CodecChoices :
                   /\ ValidateTypes(k2 :> Value(c2)).ok
                   /\ frame = Frame("codec", "called",
                                    <<InsertRow(k1, Value(c1)),
                                      InsertRow(k2, Value(c2))>>, <<>>)

\* lines 73-81: the assertion of line 76 raises, or the list is dumped
CommitEncode ==
    /\ frame.fn = "codec"
    /\ frame.at = "called"
    /\ frame' = IF TypesOk(frame.arg)
                THEN [frame EXCEPT !.at = "encoded", !.ret = Encode(frame.arg)]
                ELSE [frame EXCEPT !.at = "raised"]
    /\ UNCHANGED <<s3, conn, lsn, txns, pc, c_lsn, last, recover, calls>>

\* lines 108-116
SyncDecode ==
    /\ frame.fn = "codec"
    /\ frame.at = "encoded"
    /\ frame' = IF DecodeOk(frame.ret)
                THEN [frame EXCEPT !.at = "decoded", !.ret = Decode(frame.ret)]
                ELSE [frame EXCEPT !.at = "raised"]
    /\ UNCHANGED <<s3, conn, lsn, txns, pc, c_lsn, last, recover, calls>>

CodecNext == CommitEncode \/ SyncDecode

SpecCodec == CodecInit /\ [][CodecNext]_vars

(***************************************************************************)
(* What the log says: the segments logs/1 .. logs/k applied in order to an *)
(* empty engine, each statement run to its end.                            *)
(***************************************************************************)
RECURSIVE ApplySegment(_, _)
ApplySegment(d, stmts) ==
    IF stmts = <<>>
    THEN [ok |-> TRUE, d |-> d]
    ELSE IF ~PrepareOk(Head(stmts), d)
         THEN [ok |-> FALSE, d |-> d]
         ELSE LET r == SqlStep(Head(stmts), d) IN
              IF r.ok THEN ApplySegment(r.d, Tail(stmts))
                      ELSE [ok |-> FALSE, d |-> d]

RECURSIVE ReplayTo(_)
ReplayTo(k) ==
    IF k = 0
    THEN [ok |-> TRUE, d |-> UserData(EmptyDb)]
    ELSE LET p == ReplayTo(k - 1) IN
         IF ~p.ok \/ ~S3Exists(k)
         THEN [ok |-> FALSE, d |-> p.d]
         ELSE ApplySegment(p.d, Decode(s3[k]))

\* the highest n such that logs/1 .. logs/n all exist
RECURSIVE TopFrom(_)
TopFrom(k) == IF S3Exists(k + 1) THEN TopFrom(k + 1) ELSE k
Top == TopFrom(0)

PutIssued == {"put_ok", "returned", "raced"}
PutWon == {"put_ok", "returned"}

(***************************************************************************)
(* C1.  Two sessions on different nodes whose commits both put logs/n:     *)
(* exactly one put succeeds and the other commit fails, logs/n holds the   *)
(* octets the successful committer encoded, and no existing object of the  *)
(* bucket is ever replaced or removed.                                     *)
(***************************************************************************)
C1_Race(a, b) ==
    /\ a # b
    /\ last[a].op \in PutIssued
    /\ last[b].op \in PutIssued
    /\ last[a].key = last[b].key

C1_State ==
    \A a, b \in Nodes :
        C1_Race(a, b) =>
            /\ (last[a].op \in PutWon) # (last[b].op \in PutWon)
            /\ last[a].op \in PutWon => s3[last[a].key] = last[a].octets

C1_Step ==
    \A k \in DOMAIN s3 : k \in DOMAIN s3' /\ s3'[k] = s3[k]

C1_OneWinner == [](C1_State) /\ [][C1_Step]_vars

\* both commits ended, the two sessions had encoded different octets
C1_Witness ==
    \E a, b \in Nodes :
        /\ C1_Race(a, b)
        /\ last[a].op = "returned"
        /\ last[b].op = "raced"
        /\ last[a].octets # last[b].octets
        /\ last[a].octets # <<>>

(***************************************************************************)
(* C2.  On every node the committed content of the engine, with its        *)
(* persisted _kv.lsn = n, is the result of applying logs/1 .. logs/n in    *)
(* order to an empty engine.                                               *)
(***************************************************************************)
C2_DurableIsReplay ==
    \A n \in Nodes :
        LET r == ReplayTo(conn[n].disk.kv_lsn) IN
        r.ok /\ UserData(conn[n].disk) = r.d

(***************************************************************************)
(* C3.  The persisted _kv.lsn of every node starts at 0, every step leaves *)
(* it or adds 1 to it, and a commit that returns adds exactly 1.           *)
(***************************************************************************)
C3_Step ==
    \A n \in Nodes :
        LET old == conn[n].disk.kv_lsn
            new == conn'[n].disk.kv_lsn
        IN /\ new = old \/ new = old + 1
           /\ (pc[n] = "put_done" /\ pc'[n] = "idle") => new = old + 1

C3_MonotonicLsn ==
    /\ \A n \in Nodes : conn[n].disk.kv_lsn = 0
    /\ [][C3_Step]_vars

\* a commit has returned on a node that is now at 2
C3_Witness ==
    \E n \in Nodes :
        /\ last[n].op = "returned"
        /\ last[n].key = 2
        /\ conn[n].disk.kv_lsn = 2

(***************************************************************************)
(* C4.  A writer killed between its successful put of logs/n and the local *)
(* commit: the constructor of its next process returns, with the LSN at    *)
(* the end of the log (n, or beyond when others published since), and the  *)
(* engine holds what the log says, segment n once.                         *)
(***************************************************************************)
C4_Recovered ==
    \A n \in Nodes :
        (recover[n] > 0 /\ last[n].op \in {"init_returned", "init_raised"}) =>
            /\ last[n].op = "init_returned"
            /\ conn[n].disk.kv_lsn >= recover[n]
            /\ conn[n].disk.kv_lsn = Top
            /\ lsn[n] = Some(conn[n].disk.kv_lsn)
            /\ UserData(conn[n].disk) = ReplayTo(conn[n].disk.kv_lsn).d

(***************************************************************************)
(* C5.  Two nodes whose last sync found no next segment, with no put       *)
(* since, have the same LSN and the same committed user table and rows.    *)
(***************************************************************************)
Quiesced(n) == last[n].op \in {"init_returned", "sync_returned"}

C5_Converged ==
    \A a, b \in Nodes :
        (Quiesced(a) /\ Quiesced(b)) => conn[a].disk = conn[b].disk

(***************************************************************************)
(* C6.  A session whose put found logs/(lsn+1) in the bucket has rolled    *)
(* back, dropped its pending list and run sync: it is at the end of the    *)
(* log with nothing of its own left in the engine.                         *)
(***************************************************************************)
C6_LoserSynced ==
    \A n \in Nodes :
        last[n].op = "raced" =>
            /\ lsn[n] = Some(conn[n].disk.kv_lsn)
            /\ conn[n].disk.kv_lsn >= last[n].key
            /\ txns[n] = Some(<<>>)
            /\ conn[n].work = conn[n].disk

(***************************************************************************)
(* C7.  A commit with an empty pending list puts nothing: no segment of    *)
(* the log has an empty statement list.                                    *)
(***************************************************************************)
C7_NoEmptySegment ==
    \A k \in DOMAIN s3 : s3[k] # <<>>

(***************************************************************************)
(* C8.  No node is ahead of the log: a persisted _kv.lsn = n > 0 means     *)
(* that logs/n exists, also between the two halves of a commit and after   *)
(* a kill at any point.                                                    *)
(***************************************************************************)
C8_NotAhead ==
    \A n \in Nodes :
        conn[n].disk.kv_lsn > 0 => S3Exists(conn[n].disk.kv_lsn)

\* one node is at 2, the other was killed between its put and local commit
C8_Witness ==
    \E n, m \in Nodes :
        /\ conn[n].disk.kv_lsn = 2
        /\ pc[m] = "down"
        /\ recover[m] > 0
        /\ conn[m].disk.kv_lsn < recover[m]

(***************************************************************************)
(* C9.  Whenever a node issues the put of logs/n, won or lost, its         *)
(* persisted _kv.lsn is n-1 at that moment.                                *)
(***************************************************************************)
C9_Step ==
    \A n \in Nodes :
        (last'[n] # last[n] /\ last'[n].op \in {"put_ok", "raced"}) =>
            last'[n].key = conn[n].disk.kv_lsn + 1

C9_PutAtLsnPlusOne == [][C9_Step]_vars

\* a put of logs/2 has succeeded on a node whose persisted LSN is 1
C9_Witness ==
    \E n \in Nodes :
        /\ last[n].op = "put_ok"
        /\ last[n].key = 2
        /\ conn[n].disk.kv_lsn = 1

(***************************************************************************)
(* C10.  The keys of the bucket are 1 .. n for some n: no gap, no logs/0.  *)
(***************************************************************************)
C10_GapFree ==
    /\ ~S3Exists(0)
    /\ \A k \in DOMAIN s3 : k > 1 => S3Exists(k - 1)

\* logs/2 exists, put by one node while the other node is at 1
C10_Witness ==
    /\ S3Exists(2)
    /\ \E a, b \in Nodes :
        /\ a # b
        /\ last[a].op \in PutWon /\ last[a].key = 2
        /\ conn[b].disk.kv_lsn = 1 /\ pc[b] = "idle"

(***************************************************************************)
(* C11.  A round of sync whose segment fails to decode or to run leaves    *)
(* nothing of that segment behind: the statements it had executed are      *)
(* rolled back (the engine shows what it showed before the round, or the   *)
(* committed content), the committed content and the persisted _kv.lsn are *)
(* as before, and self.lsn of a session that lives on is unchanged.        *)
(***************************************************************************)
C11_Step ==
    \A n \in Nodes :
        (last'[n] # last[n] /\ last'[n].op \in {"init_raised", "sync_raised"}) =>
            /\ conn'[n].disk = conn[n].disk
            /\ conn'[n].work \in {conn[n].work, conn[n].disk}
            /\ last'[n].op = "sync_raised" => lsn'[n] = lsn[n]

C11_RolledBack == [][C11_Step]_vars

(***************************************************************************)
(* C12.  A session whose operation failed with a caller-facing error has   *)
(* aborted its transaction: the commit it calls next publishes none of the *)
(* statements buffered before the error.                                   *)
(***************************************************************************)
CallerErrors == {"type_mismatch", "ddl_mismatch"}

C12_Step ==
    \A n \in Nodes :
        (last[n].op \in CallerErrors /\ last'[n].op = "put_ok") =>
            last'[n].octets = <<>>

C12_Aborted == [][C12_Step]_vars

(***************************************************************************)
(* C13.  A call of rename_column whose two names differ in their first     *)
(* character changes nothing: the engine (what the connection sees and     *)
(* what is committed, _kv.lsn included), self.txns, self.lsn and the       *)
(* bucket are as before the call, whatever the state of the session.       *)
(***************************************************************************)
C13_Step ==
    \A n \in Nodes :
        (last'[n] # last[n] /\ last'[n].op = "ddl_mismatch") =>
            /\ conn' = conn
            /\ txns' = txns
            /\ lsn' = lsn
            /\ s3' = s3
            /\ pc' = pc

C13_RenameFrame == [][C13_Step]_vars

\* the call failed in a session with pending statements, while the session
\* of the other node had lost self.lsn and self.txns in a failed commit
C13_Witness ==
    \E n, m \in Nodes :
        /\ last[n].op = "ddl_mismatch"
        /\ ~txns[n].none
        /\ txns[n].v # <<>>
        /\ conn[n].work # conn[n].disk
        /\ pc[m] = "idle"
        /\ txns[m].none

(***************************************************************************)
(* C17.  The follower loop of main never ends: no process that runs it     *)
(* has left it with an exception.                                          *)
(***************************************************************************)
C17_LoopRuns ==
    \A n \in Nodes : last[n].op # "main_raised"

(***************************************************************************)
(* C15: decoding the encoding of a pending list whose parameters          *)
(* validate_types accepted gives the list back: every statement text and   *)
(* every parameter, a null, an integer under an f name and bytes included. *)
(***************************************************************************)
C15_RoundTrip ==
    (frame.fn = "codec" /\ frame.at \in {"raised", "decoded"}) =>
        /\ frame.at = "decoded"
        /\ frame.ret = frame.arg

(***************************************************************************)
(* C16: validate_types accepts a map exactly when every pair in it is      *)
(* compatible (i: an integer; f: an integer or a float; t: a text; b:      *)
(* bytes or a base64 text; a null under every name), and the map it        *)
(* returns has the names of its argument, keeps the nulls, and holds bytes *)
(* under every b name that is not null.                                    *)
(***************************************************************************)
\* RFC 4648: groups of four characters of the alphabet, the last group
\* ending in at most two '='
IsBase64(text) ==
    /\ Len(text) % 4 = 0
    /\ \A i \in 1..Len(text) :
          /\ text[i] <= Pad
          /\ text[i] = Pad =>
                /\ i >= Len(text) - 1
                /\ i = Len(text) - 1 => text[Len(text)] = Pad

Compatible(k, v) ==
    \/ v.kind = "none"
    \/ Prefix(k) = "i" /\ v.kind = "int"
    \/ Prefix(k) = "f" /\ v.kind \in {"int", "float"}
    \/ Prefix(k) = "t" /\ v.kind = "str"
    \/ Prefix(k) = "b" /\ v.kind = "bytes"
    \/ Prefix(k) = "b" /\ v.kind = "str" /\ IsBase64(v.v)

C16_Validate ==
    (frame.fn = "validate_types" /\ frame.at # "called") =>
        /\ frame.at = "returned" <=>
               \A k \in DOMAIN frame.arg : Compatible(k, frame.arg[k])
        /\ frame.at = "returned" =>
               /\ DOMAIN frame.ret = DOMAIN frame.arg
               /\ \A k \in DOMAIN frame.arg :
                     /\ frame.arg[k].kind = "none" => frame.ret[k] = NoneV
                     /\ (Prefix(k) = "b" /\ frame.arg[k].kind # "none") =>
                            frame.ret[k].kind = "bytes"

(***************************************************************************)
(* C14: a call of sync() that finds no logs/(lsn+1) changes nothing: the   *)
(* persisted _kv.lsn, the in-memory lsn, the engine state, the pending     *)
(* list and the bucket are as before the call, so that any number of such  *)
(* calls in a row leave the state of one.  C14_NoOp is the statement as    *)
(* made; C14_NoOpOnceSet is the statement for the in-memory lsn that the   *)
(* code keeps: a call leaves self.lsn as it is when it holds a number, and *)
(* sets it to the persisted _kv.lsn when a failed commit left it None, so  *)
(* that the calls after the first change nothing at all.                   *)
(***************************************************************************)
\* lines 99-100 of a call that will find no segment
C14_Call(n) ==
    /\ pc[n] = "idle"
    /\ pc'[n] = "sync"
    /\ ~S3Exists(conn[n].disk.kv_lsn + 1)

\* line 106
C14_Break(n) ==
    /\ pc[n] = "sync"
    /\ pc'[n] = "idle"
    /\ last'[n].op = "sync_returned"

C14_Rest == conn' = conn /\ txns' = txns /\ s3' = s3 /\ c_lsn' = c_lsn

C14_StepAsStated == \A n \in Nodes :
    (C14_Call(n) \/ C14_Break(n)) => (C14_Rest /\ lsn' = lsn)

C14_Step == \A n \in Nodes :
    /\ C14_Call(n) =>
          /\ C14_Rest
          /\ lsn' = [lsn EXCEPT ![n] = Some(conn[n].disk.kv_lsn)]
          /\ ~lsn[n].none => lsn' = lsn
    /\ C14_Break(n) =>
          /\ C14_Rest
          /\ lsn' = lsn
          /\ lsn[n] = Some(conn[n].disk.kv_lsn)

RECURSIVE SumLen(_)
SumLen(keys) ==
    IF keys = {} THEN 0
    ELSE LET k == CHOOSE x \in keys : TRUE IN
         Len(s3[k]) + SumLen(keys \ {k})

RECURSIVE SumPending(_)
SumPending(ns) ==
    IF ns = {} THEN 0
    ELSE LET n == CHOOSE x \in ns : TRUE IN
         (IF txns[n].none THEN 0 ELSE Len(txns[n].v)) + SumPending(ns \ {n})

\* no more statements are published or pending than modify() was called
C18_State == SumLen(DOMAIN s3) + SumPending(Nodes) <= calls

C18_Step == \A n \in Nodes :
    \* the put publishes the list, in its order
    /\ (last'[n] # last[n] /\ last'[n].op = "put_ok") =>
          /\ ~txns[n].none
          /\ ~S3Exists(last'[n].key)
          /\ s3' = (last'[n].key :> Encode(txns[n].v)) @@ s3
          /\ Decode(s3'[last'[n].key]) = txns[n].v
    \* the commit returns with an empty list
    /\ (pc[n] = "put_done" /\ pc'[n] = "idle") => txns'[n] = Some(<<>>)
    \* a list starts empty, at the constructor or at the return of commit
    /\ (txns[n].none /\ ~txns'[n].none) =>
          /\ txns'[n] = Some(<<>>)
          /\ pc[n] \in {"down", "put_done"}
    \* a list changes by one statement added at its end, in a call of modify
    /\ (~txns[n].none /\ ~txns'[n].none /\ txns'[n] # txns[n]) =>
          /\ calls' = calls + 1
          /\ Len(txns'[n].v) = Len(txns[n].v) + 1
          /\ SubSeq(txns'[n].v, 1, Len(txns[n].v)) = txns[n].v

C18_OneSegment == [](C18_State) /\ [][C18_Step]_vars

\* one session published logs/1 and logs/2, a statement each, the other
\* node never ran a statement
C18_Witness ==
    \E n, m \in Nodes :
        /\ n # m
        /\ last[n].op = "returned"
        /\ last[n].key = 2
        /\ txns[n] = Some(<<>>)
        /\ S3Exists(1)
        /\ Len(s3[1]) = 1
        /\ Len(s3[2]) = 1
        /\ s3[1] # s3[2]
        /\ conn[m].disk = EmptyDb
        /\ recover[m] = 0

(***************************************************************************)
(* C19: after a commit whose put raised, self.lsn and self.txns are None;  *)
(* the session issues no put any more: every later commit on it raises     *)
(* before the put, and its pending list stays None as long as it lives.    *)
(***************************************************************************)
C19_State == \A n \in Nodes :
    last[n].op = "raced" => (lsn[n] = None /\ txns[n] = None /\ pc[n] = "idle")

C19_Step == \A n \in Nodes :
    (pc[n] \in {"idle", "sync"} /\ txns[n].none) =>
        /\ txns'[n].none
        /\ pc'[n] \in {"idle", "sync", "down"}
        /\ last'[n] # last[n] => last'[n].op \notin {"put_ok", "raced"}
        /\ s3' # s3 => \E m \in Nodes \ {n} :
                           last'[m] # last[m] /\ last'[m].op = "put_ok"

C19_DeadSession == [](C19_State) /\ [][C19_Step]_vars

\* in a run without a call of modify, a commit raised before its put: the
\* session had lost a race before
C19_Witness ==
    \E n \in Nodes :
        /\ last[n].op = "error"
        /\ calls = 0
        /\ pc[n] = "idle"
        /\ lsn[n] = None
        /\ txns[n] = None
        /\ S3Exists(1)

(***************************************************************************)
(* C20: a call of sync() whose segments apply ends once no writer          *)
(* publishes any more, and when it has ended the persisted and the         *)
(* in-memory lsn are the highest n such that logs/1 .. logs/n all exist;   *)
(* each round that does not end the call applies one more segment that     *)
(* exists, so the call lasts as long as a writer keeps publishing.         *)
(***************************************************************************)
InSync(n) == pc[n] \in {"init_sync", "sync"}

C20_State == \A n \in Nodes :
    /\ Quiesced(n) => (lsn[n] = Some(Top) /\ conn[n].disk.kv_lsn = Top)
    /\ InSync(n) => (lsn[n].v <= Top /\ ENABLED SyncStep(n))

C20_Step == \A n \in Nodes :
    (InSync(n) /\ pc'[n] = pc[n] /\ <<conn'[n], lsn'[n]>> # <<conn[n], lsn[n]>>) =>
        /\ S3Exists(lsn[n].v + 1)
        /\ lsn'[n] = Some(lsn[n].v + 1)
        /\ conn'[n].disk.kv_lsn = lsn[n].v + 1

\* the writers of a run publish MaxLsn segments at most: every call ends
C20_Ends == \A n \in Nodes : InSync(n) ~> ~InSync(n)

C20_SyncTerminates == [](C20_State) /\ [][C20_Step]_vars /\ C20_Ends

\* a call of sync() returned at 2 after the other node had published
\* logs/2 and returned from its commit
C20_Witness ==
    \E n, m \in Nodes :
        /\ n # m
        /\ last[n].op = "sync_returned"
        /\ lsn[n] = Some(2)
        /\ Top = 2
        /\ last[m].op = "returned"
        /\ last[m].key = 2

====
